---- MODULE Spec2Model ----
(***************************************************************************)
(* Model of CurrencyExchangeAPIRetriever (src/CurrencyExchangeAPIRetriever *)
(* .py): the three retrieval operations against the remote API and the     *)
(* multi-year timeseries assembly of get_timeseries_of_exchange_rates.     *)
(*                                                                         *)
(* Dates.  A datetime is a triple <<year, month, day>>.  A date STRING in  *)
(* the documented "YYYY-MM-DD" format is the integer YYYYMMDD: for the     *)
(* zero-padded fixed-width strings the code documents, Python's string     *)
(* comparison is exactly integer comparison of that number.  strptime and  *)
(* strftime convert between the two.                                       *)
(***************************************************************************)
EXTENDS Integers, Sequences, FiniteSets

None == "None"

\* ------------------------------------------------------------------ bounds
\* explicit start/end dates are drawn from the years 2019 .. 2019 + YearSpan
YearSpan == 3
\* the merge step is also exercised alone on lists of up to MaxItems items
MaxItems == 3

\* ---------------------------------------------------------------- calendar
IsLeap(y) == (y % 4 = 0) /\ ((y % 100 # 0) \/ (y % 400 = 0))

\* calendar.monthrange(year, month)[1]
DaysInMonth(y, m) ==
    IF m = 2 THEN (IF IsLeap(y) THEN 29 ELSE 28)
    ELSE IF m \in {4, 6, 9, 11} THEN 30 ELSE 31

ValidDate(dt) == /\ dt[2] \in 1..12
                 /\ dt[3] \in 1..DaysInMonth(dt[1], dt[2])

Min(a, b) == IF a < b THEN a ELSE b
Abs(n) == IF n < 0 THEN -n ELSE n
Sign(n) == IF n < 0 THEN -1 ELSE 1

\* datetime.strftime("%Y-%m-%d")
strftime(dt) == dt[1] * 10000 + dt[2] * 100 + dt[3]

\* datetime.strptime(s, "%Y-%m-%d")
strptime(s) == << s \div 10000, (s \div 100) % 100, s % 100 >>

\* datetime comparison dt1 < dt2
DateLess(dt1, dt2) ==
    \/ dt1[1] < dt2[1]
    \/ dt1[1] = dt2[1] /\ dt1[2] < dt2[2]
    \/ dt1[1] = dt2[1] /\ dt1[2] = dt2[2] /\ dt1[3] < dt2[3]

\* relativedelta._set_months: the (years, months) pair for a month count
SetMonthsYears(months) ==
    IF Abs(months) > 11 THEN Sign(months) * ((months * Sign(months)) \div 12) ELSE 0

SetMonthsMonths(months) ==
    IF Abs(months) > 11 THEN Sign(months) * ((months * Sign(months)) % 12) ELSE months

\* relativedelta.__add__ : dt + relativedelta(years, months)
RdAdd(dt, years, months) ==
    LET m0 == dt[2] + months
        year == IF months # 0 /\ m0 > 12 THEN dt[1] + years + 1
                ELSE IF months # 0 /\ m0 < 1 THEN dt[1] + years - 1
                ELSE dt[1] + years
        month == IF months # 0 /\ m0 > 12 THEN m0 - 12
                 ELSE IF months # 0 /\ m0 < 1 THEN m0 + 12
                 ELSE m0
    IN << year, month, Min(DaysInMonth(year, month), dt[3]) >>

\* dt - relativedelta(years=k)
SubYears(dt, k) == RdAdd(dt, -k, 0)

\* dt2 + relativedelta carrying `months` months in total
AddMonths(dt2, months) == RdAdd(dt2, SetMonthsYears(months), SetMonthsMonths(months))

\* the adjustment loop of relativedelta(dt1, dt2): the month count after it
RECURSIVE AdjustMonths(_, _, _)
AdjustMonths(dt1, dt2, months) ==
    IF DateLess(dt1, dt2)
    THEN IF DateLess(AddMonths(dt2, months), dt1)
         THEN AdjustMonths(dt1, dt2, months + 1) ELSE months
    ELSE IF DateLess(dt1, AddMonths(dt2, months))
         THEN AdjustMonths(dt1, dt2, months - 1) ELSE months

\* relativedelta(dt1, dt2).years
RelativeDeltaYears(dt1, dt2) ==
    SetMonthsYears(AdjustMonths(dt1, dt2, (dt1[1] - dt2[1]) * 12 + (dt1[2] - dt2[2])))


\* ------------------------------------------------------------------ values
\* start_date=None / end_date=None (lines 56, 79): the absent date string
NoDate == 0

\* period=None (line 79, and valid_periods[0]): a period is a string, modelled
\* as its sequence of characters; the absent period is the empty sequence
NoPeriod == << >>

\* CurrencyExchangeAPIRetriever.valid_periods
valid_periods == { NoPeriod, <<"1", "y">>, <<"2", "y">>, <<"3", "y">>, <<"5", "y">> }

\* Python truthiness of an optional argument: None and "" are falsy
Truthy(x) == x \notin { None, "" }
TruthyDate(s) == s # NoDate
TruthyPeriod(p) == Len(p) > 0

\* int(ch) for a one-character string
IntOfChar(ch) ==
    CASE ch = "0" -> 0 [] ch = "1" -> 1 [] ch = "2" -> 2 [] ch = "3" -> 3
      [] ch = "4" -> 4 [] ch = "5" -> 5 [] ch = "6" -> 6 [] ch = "7" -> 7
      [] ch = "8" -> 8 [] ch = "9" -> 9

\* the rate values a response may carry (one value per response)
Rates == { 1, 2 }

\* response.status_code values the remote API may answer with
StatusCodes == { 200, 401, 500 }

\* ------------------------------------------------------------------ inputs
InputYears == 2019 .. (2019 + YearSpan)

\* explicit start/end date strings: around the end of February, every year
InputDates ==
    { s \in { strftime(<<y, md[1], md[2]>>) :
                y \in InputYears, md \in { <<2, 28>>, <<2, 29>>, <<3, 1>> } } :
        ValidDate(strptime(s)) }

\* what datetime.datetime.today() may return
Todays == { <<2024, 2, 29>>, <<2023, 6, 15>> }

\* (base, symbols) pairs handed to get_timeseries_of_exchange_rates
CurrencyArgs == { <<"EUR", "USD">>, <<None, None>> }

\* (start_date, end_date, period) triples handed to
\* get_timeseries_of_exchange_rates: every explicit pair (complete or not)
\* without a period, and every period alone or with a complete explicit pair
TimeseriesArgs ==
    { <<s, e, NoPeriod>> : s \in InputDates \cup {NoDate}, e \in InputDates \cup {NoDate} }
    \cup { <<NoDate, NoDate, p>> : p \in valid_periods }
    \cup { <<20190301, 20220301, p>> : p \in valid_periods }

\* ------------------------------------------------------------- remote API
\* the calendar dates (as date strings) from sd to ed, both included
DatesBetween(sd, ed) ==
    IF sd = NoDate \/ ed = NoDate THEN {}
    ELSE { x \in { y * 10000 + m * 100 + d :
                     y \in (sd \div 10000) .. (ed \div 10000), m \in 1..12, d \in 1..31 } :
             ValidDate(strptime(x)) /\ sd <= x /\ x <= ed }

\* how the upstream API answers a timeseries request during one behaviour:
\*   "exact"   a complete daily series, reporting the dates it was asked for
\*   "sparse"  only the two boundary dates of the window
\*   "shifted" a complete daily series, reporting its end date as both dates
UpstreamKinds == { "exact", "sparse", "shifted" }

\* response.json() of the timeseries endpoint (spec section 6:
\* {start_date, end_date, rates: {date: rate}}) for a window and a rate value
TimeseriesJson(kind, sd, ed, v) ==
    [ start_date |-> IF kind = "shifted" THEN ed ELSE sd,
      end_date   |-> ed,
      rates      |-> IF kind = "sparse"
                     THEN [ d \in DatesBetween(sd, ed) \cap {sd, ed} |-> v ]
                     ELSE [ d \in DatesBetween(sd, ed) |-> v ] ]

VARIABLES
    pc,              \* "idle", "single", "loop", "done", "raised"
    op,              \* the public operation called, "none" before any call
    clock,           \* what datetime.datetime.today() returns
    upstream,        \* how the remote API answers (one of UpstreamKinds)
    args,            \* the arguments of the operation called
    number_of_years, \* local of get_timeseries_of_exchange_rates
    year,            \* the loop variable of line 118
    data_retrieved,  \* the list of sub-results (line 116)
    requests,        \* every HTTP GET issued so far, in order
    result,          \* << v >> once v is returned, << >> before
    error            \* << e >> once exception e is raised, << >> before

vars == << pc, op, clock, upstream, args, number_of_years, year,
           data_retrieved, requests, result, error >>

NoArgs == [ start_date |-> NoDate, end_date |-> NoDate, period |-> NoPeriod,
            base |-> None, symbols |-> None ]

Init ==
    /\ pc = "idle"
    /\ op = "none"
    /\ clock \in Todays
    /\ upstream \in UpstreamKinds
    /\ args = NoArgs
    /\ number_of_years = 0
    /\ year = 0
    /\ data_retrieved = << >>
    /\ requests = << >>
    /\ result = << >>
    /\ error = << >>


\* ------------------------------------------------------------- operations
\* the exceptions of lines 51/76, 54 and 103
StatusError(status) == [ message |-> "error status", status |-> status ]
BaseOrSymbolsError == [ message |-> "base or symbols was None", status |-> 0 ]
ArgumentsError == [ message |-> "provide valid arguments", status |-> 0 ]

\* the GET of line 74 (timeseries) or line 49 (latest) and its status code
Request(endpoint, sd, ed, base, symbols, status) ==
    [ endpoint |-> endpoint, start_date |-> sd, end_date |-> ed,
      base |-> base, symbols |-> symbols, status |-> status ]

\* faulty variant: the status check of lines 75-76 left out
RetrieveTimeseriesUnchecked(sd, ed, base, symbols, status, v) ==
    [ request |-> Request("timeseries", sd, ed, base, symbols, status),
      raised  |-> FALSE,
      error   |-> StatusError(status),
      value   |-> TimeseriesJson(upstream, sd, ed, v) ]

\* _retrieve_timeseries_of_exchange_rates(start_date, end_date, base, symbols)
\* when the API answers `status` with rate value v: the request it issues,
\* whether it raises, and the value it returns otherwise
RetrieveTimeseries(sd, ed, base, symbols, status, v) ==
    [ request |-> Request("timeseries", sd, ed, base, symbols, status),
      raised  |-> status # 200,
      error   |-> StatusError(status),
      value   |-> TimeseriesJson(upstream, sd, ed, v) ]

\* lines 97-103: the number of requests needed; 0 stands for the raise of 103
NumberOfYears(start_date, end_date, period) ==
    IF TruthyPeriod(period) THEN IntOfChar(period[1])
    ELSE IF TruthyDate(start_date) /\ TruthyDate(end_date)
         THEN RelativeDeltaYears(strptime(end_date), strptime(start_date)) + 1
         ELSE 0

HasValidArguments(start_date, end_date, period) ==
    TruthyPeriod(period) \/ (TruthyDate(start_date) /\ TruthyDate(end_date))

\* faulty variant: the branches of lines 119-128 swapped, explicit dates tested first
WindowDatesFirst(start_date, end_date, period, today, k) ==
    IF ~(TruthyDate(start_date) /\ TruthyDate(end_date))
    THEN << strftime(SubYears(today, k + 1)), strftime(SubYears(today, k)) >>
    ELSE LET end_date_req == strftime(SubYears(strptime(end_date), k))
             start_date_req == strftime(SubYears(strptime(end_date), k + 1))
         IN << IF start_date_req < start_date THEN start_date ELSE start_date_req,
               end_date_req >>

\* lines 119-128: the window of loop iteration k, << start_date_req, end_date_req >>
Window(start_date, end_date, period, today, k) ==
    IF TruthyPeriod(period)
    THEN << strftime(SubYears(today, k + 1)), strftime(SubYears(today, k)) >>
    ELSE LET end_date_req == strftime(SubYears(strptime(end_date), k))
             start_date_req == strftime(SubYears(strptime(end_date), k + 1))
         IN << IF start_date_req < start_date THEN start_date ELSE start_date_req,
               end_date_req >>

\* lines 107-114: the window of the single-request path
SingleWindow(start_date, end_date, period, today) ==
    IF TruthyPeriod(period)
    THEN << strftime(SubYears(today, 1)), strftime(today) >>
    ELSE << start_date, end_date >>

\* faulty variant: line 139 assigning item["rates"] instead of updating with it
DictAssign(a, b) == b

\* dict.update: a with the entries of b written over it
DictUpdate(a, b) ==
    [ k \in (DOMAIN a) \cup (DOMAIN b) |-> IF k \in DOMAIN b THEN b[k] ELSE a[k] ]

\* faulty variant: line 135 iterating data_retrieved without reversed()
NotReversed(s) == s

\* reversed(list)
Reversed(s) == [ i \in 1..Len(s) |-> s[Len(s) + 1 - i] ]

\* faulty variant: the else branch of lines 138-139 left out
UpdateNone(items) == items[1].rates

\* lines 135-139: the rates after the loop has run over `items`
RECURSIVE UpdateAll(_)
UpdateAll(items) ==
    IF Len(items) = 1 THEN items[1].rates
    ELSE DictUpdate(UpdateAll(SubSeq(items, 1, Len(items) - 1)), items[Len(items)].rates)

\* faulty variant: line 133 reading data_retrieved[0] instead of data_retrieved[-1]
PostProcessedFirstStart(data) ==
    [ start_date |-> data[1].start_date,
      end_date   |-> data[1].end_date,
      rates      |-> UpdateAll(Reversed(data)) ]

\* lines 131-140: the post-processing of the list of sub-results
PostProcessed(data) ==
    [ start_date |-> data[Len(data)].start_date,
      end_date   |-> data[1].end_date,
      rates      |-> UpdateAll(Reversed(data)) ]

\* get_timeseries_of_exchange_rates, lines 96-105 and 116-117
GetTimeseries ==
    /\ pc = "idle"
    /\ \E a \in TimeseriesArgs, c \in CurrencyArgs :
         LET n == NumberOfYears(a[1], a[2], a[3]) IN
         /\ args' = [ start_date |-> a[1], end_date |-> a[2], period |-> a[3],
                      base |-> c[1], symbols |-> c[2] ]
         /\ op' = "get_timeseries"
         /\ IF HasValidArguments(a[1], a[2], a[3])
            THEN /\ number_of_years' = n
                 /\ pc' = IF n <= 1 THEN "single" ELSE "loop"
                 /\ error' = error
            ELSE /\ number_of_years' = number_of_years
                 /\ pc' = "raised"
                 /\ error' = << ArgumentsError >>
    /\ UNCHANGED << clock, upstream, year, data_retrieved, requests, result >>

\* get_timeseries_of_exchange_rates, lines 106-114: the single request
FetchSingle ==
    /\ pc = "single"
    /\ \E status \in StatusCodes, v \in Rates :
         LET w == SingleWindow(args.start_date, args.end_date, args.period, clock)
             r == RetrieveTimeseries(w[1], w[2], args.base, args.symbols, status, v)
         IN /\ requests' = Append(requests, r.request)
            /\ IF r.raised
               THEN /\ pc' = "raised"
                    /\ error' = << r.error >>
                    /\ result' = result
               ELSE /\ pc' = "done"
                    /\ error' = error
                    /\ result' = << r.value >>
    /\ UNCHANGED << op, clock, upstream, args, number_of_years, year, data_retrieved >>

\* get_timeseries_of_exchange_rates, lines 118-130: one iteration of the loop
FetchWindow ==
    /\ pc = "loop"
    /\ year < number_of_years
    /\ \E status \in StatusCodes, v \in Rates :
         LET w == Window(args.start_date, args.end_date, args.period, clock, year)
             r == RetrieveTimeseries(w[1], w[2], args.base, args.symbols, status, v)
         IN /\ requests' = Append(requests, r.request)
            /\ IF r.raised
               THEN /\ pc' = "raised"
                    /\ error' = << r.error >>
                    /\ UNCHANGED << year, data_retrieved >>
               ELSE /\ pc' = pc
                    /\ error' = error
                    /\ year' = year + 1
                    /\ data_retrieved' = Append(data_retrieved, r.value)
    /\ UNCHANGED << op, clock, upstream, args, number_of_years, result >>

\* get_timeseries_of_exchange_rates, lines 131-140: merge and return
PostProcess ==
    /\ pc = "loop"
    /\ year = number_of_years
    /\ pc' = "done"
    /\ result' = << PostProcessed(data_retrieved) >>
    /\ UNCHANGED << op, clock, upstream, args, number_of_years, year,
                    data_retrieved, requests, error >>

\* retrieve_latest_exchange_rates(base, symbols), lines 46-54
RetrieveLatest ==
    /\ pc = "idle"
    /\ \E base \in { None, "", "EUR" }, symbols \in { None, "", "USD" },
          status \in StatusCodes, v \in Rates :
         /\ op' = "latest"
         /\ args' = [ NoArgs EXCEPT !.base = base, !.symbols = symbols ]
         /\ IF Truthy(symbols) /\ Truthy(base)
            THEN /\ requests' = Append(requests,
                        Request("latest", NoDate, NoDate, base, symbols, status))
                 /\ IF status # 200
                    THEN /\ pc' = "raised"
                         /\ error' = << StatusError(status) >>
                         /\ result' = result
                    ELSE /\ pc' = "done"
                         /\ error' = error
                         /\ result' = << [ base |-> base, rates |-> [ c \in {symbols} |-> v ] ] >>
            ELSE /\ requests' = requests
                 /\ pc' = "raised"
                 /\ error' = << BaseOrSymbolsError >>
                 /\ result' = result
    /\ UNCHANGED << clock, upstream, number_of_years, year, data_retrieved >>

\* _retrieve_timeseries_of_exchange_rates called on its own, lines 71-77
RetrieveTimeseriesAlone ==
    /\ pc = "idle"
    /\ \E sd \in { NoDate, 20210301 }, ed \in { NoDate, 20220228 },
          base \in { None, "EUR" }, symbols \in { None, "USD" },
          status \in StatusCodes, v \in Rates :
         LET r == RetrieveTimeseries(sd, ed, base, symbols, status, v)
         IN /\ op' = "timeseries"
            /\ args' = [ start_date |-> sd, end_date |-> ed, period |-> NoPeriod,
                         base |-> base, symbols |-> symbols ]
            /\ requests' = Append(requests, r.request)
            /\ IF r.raised
               THEN /\ pc' = "raised"
                    /\ error' = << r.error >>
                    /\ result' = result
               ELSE /\ pc' = "done"
                    /\ error' = error
                    /\ result' = << r.value >>
    /\ UNCHANGED << clock, upstream, number_of_years, year, data_retrieved >>

Next ==
    \/ GetTimeseries
    \/ FetchSingle
    \/ FetchWindow
    \/ PostProcess
    \/ RetrieveLatest
    \/ RetrieveTimeseriesAlone

Spec == Init /\ [][Next]_vars


\* ------------------------------------------- the merge step on its own
\* The post-processing of lines 131-140 is a function of the list
\* data_retrieved alone.  SpecMerge fills that list with arbitrary sub-results
\* (any window over MergeDates, any rate) and then applies the merge step.
MergeDates == { 20200229, 20200301 }

InitMerge ==
    /\ pc = "buffer"
    /\ op = "merge"
    /\ clock \in Todays
    /\ upstream \in UpstreamKinds
    /\ args = NoArgs
    /\ number_of_years = 0
    /\ year = 0
    /\ data_retrieved = << >>
    /\ requests = << >>
    /\ result = << >>
    /\ error = << >>

\* lines 129-130: a sub-result is appended to data_retrieved
Buffer ==
    /\ pc = "buffer"
    /\ Len(data_retrieved) < MaxItems
    /\ \E sd \in MergeDates, ed \in MergeDates, v \in Rates :
         /\ sd <= ed
         /\ data_retrieved' = Append(data_retrieved, TimeseriesJson(upstream, sd, ed, v))
    /\ year' = year + 1
    /\ UNCHANGED << pc, op, clock, upstream, args, number_of_years, requests, result, error >>

\* lines 131-140 applied to the buffered list
MergeStep ==
    /\ pc = "buffer"
    /\ Len(data_retrieved) >= 1
    /\ pc' = "done"
    /\ result' = << PostProcessed(data_retrieved) >>
    /\ UNCHANGED << op, clock, upstream, args, number_of_years, year,
                    data_retrieved, requests, error >>

NextMerge ==
    \/ Buffer
    \/ MergeStep

SpecMerge == InitMerge /\ [][NextMerge]_vars

\* ------------------------------------------------- vocabulary of the claims
\* days from 0001-01-01 to the date (date.toordinal), for spans in days
DayNumber(dt) ==
    LET y == dt[1] - 1
        before == [ m \in 1..12 |->
                      CASE m = 1 -> 0 [] m = 2 -> 31 [] m = 3 -> 59 [] m = 4 -> 90
                        [] m = 5 -> 120 [] m = 6 -> 151 [] m = 7 -> 181 [] m = 8 -> 212
                        [] m = 9 -> 243 [] m = 10 -> 273 [] m = 11 -> 304 [] m = 12 -> 334 ]
    IN y * 365 + (y \div 4) - (y \div 100) + (y \div 400)
       + before[dt[2]] + (IF dt[2] > 2 /\ IsLeap(dt[1]) THEN 1 ELSE 0) + dt[3]

\* the number of days from date string sd to date string ed
DaysApart(sd, ed) == DayNumber(strptime(ed)) - DayNumber(strptime(sd))

\* the date string n years before a datetime: same month, and the same day
\* unless that month is shorter (29 February -> 28 February)
YearsBefore(dt, n) ==
    (dt[1] - n) * 10000 + dt[2] * 100
    + (IF dt[2] = 2 /\ dt[3] = 29 /\ ~IsLeap(dt[1] - n) THEN 28 ELSE dt[3])

\* N when the explicit pair spans exactly N whole calendar years, else 0
WholeYears(sd, ed) ==
    IF sd % 10000 = ed % 10000 /\ ed > sd THEN (ed \div 10000) - (sd \div 10000) ELSE 0

Returned == pc = "done" /\ op = "get_timeseries"
ByPeriod == op = "get_timeseries" /\ TruthyPeriod(args.period)
ByDates == /\ op = "get_timeseries" /\ ~TruthyPeriod(args.period)
           /\ TruthyDate(args.start_date) /\ TruthyDate(args.end_date)
PeriodYears == IntOfChar(args.period[1])

\* the sub-results of the request, in fetch order, on either path
SubResults == IF number_of_years <= 1 THEN result ELSE data_retrieved

\* every sub-call reported the start_date and end_date it was asked for
AllEcho ==
    \A i \in 1..Len(SubResults) :
        /\ SubResults[i].start_date = requests[i].start_date
        /\ SubResults[i].end_date = requests[i].end_date

\* every sub-call returned a complete daily series for its window
AllComplete ==
    \A i \in 1..Len(SubResults) :
        DOMAIN SubResults[i].rates = DatesBetween(requests[i].start_date, requests[i].end_date)

\* the span the request asks for
OverallStart == IF ByPeriod THEN YearsBefore(clock, PeriodYears) ELSE args.start_date
OverallEnd == IF ByPeriod THEN strftime(clock) ELSE args.end_date

\* ------------------------------------------------------------------ claims
\* C1: an explicit pair spanning exactly N >= 2 whole years, no period, issues
\* exactly N sub-calls, the last-issued window starting at start_date and the
\* first-issued window ending at end_date.
C1_ExactlyNCalls ==
    (Returned /\ ByDates /\ WholeYears(args.start_date, args.end_date) >= 2)
    => /\ Len(requests) = WholeYears(args.start_date, args.end_date)
       /\ requests[Len(requests)].start_date = args.start_date
       /\ requests[1].end_date = args.end_date

\* C2: a symbolic period Ny issues exactly N sub-calls and, when every sub-call
\* reports the dates it was asked for, the result spans [today - N years, today].
C2_PeriodSpan ==
    (Returned /\ ByPeriod)
    => /\ Len(requests) = PeriodYears
       /\ AllEcho => /\ result[1].start_date = YearsBefore(clock, PeriodYears)
                     /\ result[1].end_date = strftime(clock)

C2_Witness ==
    /\ Returned /\ ByPeriod /\ PeriodYears = 5 /\ AllEcho
    /\ Len(requests) = 5
    /\ clock = <<2024, 2, 29>>
    /\ result[1].start_date = 20190228

\* C3: an explicit pair with start <= end and at most 365 days apart, no
\* period, issues exactly one sub-call, for the window [start_date, end_date].
C3_OneCallWithin365Days ==
    (/\ Returned /\ ByDates
     /\ args.start_date <= args.end_date
     /\ DaysApart(args.start_date, args.end_date) <= 365)
    => /\ Len(requests) = 1
       /\ requests[1].start_date = args.start_date
       /\ requests[1].end_date = args.end_date

\* C4: on the multi-window path, when every sub-call returns a complete daily
\* series for its window, the merged rates have an entry for every calendar
\* date from the overall start to the overall end.
C4_NoGap ==
    (Returned /\ number_of_years > 1 /\ AllComplete)
    => DatesBetween(OverallStart, OverallEnd) \subseteq DOMAIN result[1].rates

C4_Witness ==
    /\ Returned /\ number_of_years = 2 /\ AllComplete /\ ByDates
    /\ args.start_date = 20190301 /\ args.end_date = 20210228
    /\ DOMAIN result[1].rates = DatesBetween(20190301, 20210228)

\* C5: in a merged result, a date present in the rates of two windows keeps
\* the value of the newer window (the one fetched earlier).
C5_NewerWins ==
    (Returned /\ number_of_years > 1)
    => \A i \in 1..Len(data_retrieved) : \A j \in (i + 1)..Len(data_retrieved) :
         \A d \in (DOMAIN data_retrieved[i].rates) \cap (DOMAIN data_retrieved[j].rates) :
            result[1].rates[d] = data_retrieved[i].rates[d]

C5_Witness ==
    /\ Returned /\ number_of_years > 1
    /\ \E d \in (DOMAIN data_retrieved[1].rates) \cap (DOMAIN data_retrieved[2].rates) :
          /\ data_retrieved[1].rates[d] # data_retrieved[2].rates[d]
          /\ result[1].rates[d] = data_retrieved[1].rates[d]

\* C6: when a sub-call of a get_timeseries_of_exchange_rates request answers a
\* non-success status, the request has failed with that status, nothing is
\* returned, and the failing sub-call is the last one issued.
C6_FirstFailureAborts ==
    (op = "get_timeseries" /\ \E i \in 1..Len(requests) : requests[i].status # 200)
    => /\ pc = "raised"
       /\ result = << >>
       /\ error = << StatusError(requests[Len(requests)].status) >>
       /\ \A i \in 1..(Len(requests) - 1) : requests[i].status = 200

C6_Witness ==
    /\ op = "get_timeseries" /\ pc = "raised" /\ number_of_years = 5
    /\ Len(requests) = 3 /\ requests[3].status = 500
    /\ error = << StatusError(500) >> /\ result = << >>

\* C7: retrieve_latest_exchange_rates and _retrieve_timeseries_of_exchange_rates
\* each fail with an invalid-argument error when a required parameter is
\* absent, and then issue no remote request.
C7_MissingParameterRejected ==
    (\/ op = "latest" /\ (~Truthy(args.base) \/ ~Truthy(args.symbols))
     \/ op = "timeseries" /\ (\/ ~TruthyDate(args.start_date) \/ ~TruthyDate(args.end_date)
                              \/ ~Truthy(args.base) \/ ~Truthy(args.symbols)))
    => /\ pc = "raised"
       /\ error = << BaseOrSymbolsError >>
       /\ requests = << >>

\* C8 (as stated): with both a period and a complete explicit pair, the
\* sub-calls are those computed from start_date and end_date.
C8_ExplicitPairWins ==
    (/\ Returned /\ TruthyPeriod(args.period)
     /\ TruthyDate(args.start_date) /\ TruthyDate(args.end_date))
    => LET n == RelativeDeltaYears(strptime(args.end_date), strptime(args.start_date)) + 1
       IN /\ Len(requests) = (IF n <= 1 THEN 1 ELSE n)
          /\ requests[1].end_date = args.end_date
          /\ requests[Len(requests)].start_date = args.start_date

\* C8 (amended): with both a period Ny and a complete explicit pair, the period
\* takes precedence: N sub-calls, window k being
\* [today - (k+1) years, today - k years].
C8_PeriodWins ==
    (/\ Returned /\ TruthyPeriod(args.period)
     /\ TruthyDate(args.start_date) /\ TruthyDate(args.end_date))
    => /\ Len(requests) = PeriodYears
       /\ \A i \in 1..Len(requests) :
            /\ requests[i].start_date = YearsBefore(clock, i)
            /\ requests[i].end_date = YearsBefore(clock, i - 1)

C8_Witness ==
    /\ Returned /\ args.period = <<"2", "y">>
    /\ args.start_date = 20190301 /\ args.end_date = 20220301
    /\ clock = <<2023, 6, 15>>
    /\ Len(requests) = 2
    /\ requests[2].start_date = 20210615 /\ requests[1].end_date = 20230615

\* C10: every window handed to _retrieve_timeseries_of_exchange_rates by
\* get_timeseries_of_exchange_rates has start <= end and spans at most 365 days.
C10_WindowWithin365Days ==
    op = "get_timeseries"
    => \A i \in 1..Len(requests) :
         /\ requests[i].start_date <= requests[i].end_date
         /\ DaysApart(requests[i].start_date, requests[i].end_date) <= 365


\* the permutations of 1..n
Orders(n) ==
    { f \in [ 1..n -> 1..n ] : \A i \in 1..n : \A j \in 1..n : f[i] = f[j] => i = j }

\* the list handed over in the order f
Permuted(data, f) == [ i \in 1..Len(data) |-> data[f[i]] ]

\* the sub-results carry the same value on every date two of them share
AgreeOnSharedDates(data) ==
    \A i \in 1..Len(data) : \A j \in 1..Len(data) :
        \A d \in (DOMAIN data[i].rates) \cap (DOMAIN data[j].rates) :
            data[i].rates[d] = data[j].rates[d]

====
